---- MODULE Spec2Model ----
(***************************************************************************)
(* Model of src/auth_wrapper.py: the AuthGateMiddleware that gates the     *)
(* Speaches application behind an API key.  The module-level globals       *)
(* (API_KEY, COOKIE_VALUE) are fixed at import time; every request is      *)
(* handled by dispatch, which either answers directly, raises, or awaits   *)
(* call_next (the wrapped application).                                    *)
(***************************************************************************)
EXTENDS Integers, Sequences, FiniteSets, TLC

VARIABLES API_KEY, COOKIE_VALUE, jar, issued, request, response, tasks

vars == <<API_KEY, COOKIE_VALUE, jar, issued, request, response, tasks>>

(***************************************************************************)
(* Bounds of the model.                                                    *)
(***************************************************************************)
NumSecrets == 2
NumClients == 1
NumTasks == 2

AllSecrets == <<"s3cret", "S3cret", "hunter2">>
Secrets == {AllSecrets[i] : i \in 1..NumSecrets}
Clients == 1..NumClients
Tasks == 1..NumTasks

(***************************************************************************)
(* Module-level constants of auth_wrapper.py.                              *)
(***************************************************************************)
COOKIE_NAME == "fw_auth"
\* Variant of COOKIE_MAX_AGE: thirty days counted in minutes
COOKIE_MAX_AGE_Minutes == 30 * 24 * 60

COOKIE_MAX_AGE == 30 * 24 * 60 * 60

OPEN_PATHS ==
  {"/login", "/auth/validate", "/auth/logout", "/health", "/docs",
   "/openapi.json", "/favicon.ico"}

\* Variant of Sha256Hex32: the digest of the constant text "fw:{API_KEY}"
\* (the f prefix of the string is missing)
Sha256Hex32_NoKey(key) == "8ef90cff4cd1877a22a4e69cbcf3bb47"

\* hashlib.sha256(f"fw:{key}".encode()).hexdigest()[:32], tabulated on the
\* secrets of the model (the values are the real digests).
Sha256Hex32(key) ==
  CASE key = "s3cret"  -> "2eccba77d1280cfd13d96d25224b4b9e"
    [] key = "S3cret"  -> "ac828b68283eebd2cd6e7af701d38b09"
    [] key = "hunter2" -> "1c327b38d08df903c4750ebe11000867"

\* COOKIE_VALUE = sha256(...)[:32] if API_KEY else ""
DeriveCookieValue(key) == IF key # "" THEN Sha256Hex32(key) ELSE ""


(***************************************************************************)
(* Requests.  A header or cookie is a record [present, value]; header      *)
(* values are sequences of characters so that str.startswith is computed.  *)
(* A body is the byte string of the request, described by its encoding,    *)
(* its JSON syntax and (when it is a JSON text) the value it denotes; an   *)
(* object lists its members in text order.                                 *)
(***************************************************************************)
Absent == [present |-> FALSE, value |-> ""]
Cookie(v) == [present |-> TRUE, value |-> v]

NoHeader == [present |-> FALSE, value |-> <<>>]
Header(v) == [present |-> TRUE, value |-> v]

BearerPrefix == <<"B", "e", "a", "r", "e", "r", " ">>

AuthorizationValues ==
  { NoHeader,
    Header(BearerPrefix \o <<"t", "k">>),
    Header(<<"B", "e", "a", "r", "e", "r">>),
    Header(<<"b", "e", "a", "r", "e", "r", " ", "t", "k">>),
    Header(<<"B", "a", "s", "i", "c", " ", "x">>) }

PyStr(v) == [t |-> "str", s |-> v]
PyInt(v) == [t |-> "int", s |-> v]
None == [t |-> "NoneType", s |-> ""]

Body(enc, syntax, val, members) ==
  [enc |-> enc, syntax |-> syntax, t |-> val.t, s |-> val.s, members |-> members]

EmptyBody == Body("utf-8", "empty", None, <<>>)
Object(enc, members) == Body(enc, "value", [t |-> "dict", s |-> ""], members)
Scalar(val) == Body("utf-8", "value", val, <<>>)

Keys == Secrets \cup {"", "wrong", "s3cret "}

Bodies ==
  { EmptyBody,
    Body("utf-8", "garbage", None, <<>>),
    Body("invalid", "garbage", None, <<>>),
    Body("utf-8", "deep", None, <<>>),
    Object("utf-8", <<>>),
    Object("utf-8", <<<<"key", None>>>>),
    Object("utf-8", <<<<"key", PyInt("1")>>>>),
    Object("utf-8", <<<<"other", PyStr("s3cret")>>>>),
    Object("utf-8", <<<<"key", PyStr("s3cret")>>, <<"key", PyStr("wrong")>>>>),
    Object("utf-16", <<<<"key", PyStr("s3cret")>>>>),
    Object("utf-16", <<<<"key", PyStr("wrong")>>>>),
    Scalar(PyStr("s3cret")),
    Scalar(PyInt("1")),
    Scalar(None),
    Body("utf-8", "value", [t |-> "list", s |-> ""], <<>>) }
  \cup { Object("utf-8", <<<<"key", PyStr(k)>>>>) : k \in Keys }

Paths == OPEN_PATHS \cup {"/", "/v1/models", "/login/"}
Methods == {"GET", "POST"}

CookieValues ==
  {"", AllSecrets[1]} \cup {Sha256Hex32(k) : k \in Secrets}

Cookies == {Absent} \cup {Cookie(v) : v \in CookieValues}

\* The body is only ever read on POST /auth/validate: elsewhere the model
\* sends the empty body, and on POST /auth/validate it varies the body over
\* all of Bodies and the credentials over ValidateCredentials.
ValidateCredentials ==
  { <<NoHeader, Absent>>,
    <<Header(BearerPrefix \o <<"t", "k">>), Cookie(Sha256Hex32(AllSecrets[1]))>> }

\* Open paths the wrapper has no route for: they reach the wrapped app
StaticOpenPaths == {"/docs", "/openapi.json", "/favicon.ico"}

\* The requests the clients send.  Every Authorization value is tried on the
\* GET requests; POST requests and the static open paths carry either no
\* header or a Bearer header, and the static open paths either no cookie or
\* the first secret's token.
Requests ==
  { r \in [path : Paths, method : Methods, authorization : AuthorizationValues,
           cookie : Cookies, body : Bodies] :
      /\ IF r.path = "/auth/validate" /\ r.method = "POST"
           THEN <<r.authorization, r.cookie>> \in ValidateCredentials
           ELSE r.body = EmptyBody
      /\ (r.method = "POST" \/ r.path \in StaticOpenPaths)
           => r.authorization \in {NoHeader, Header(BearerPrefix \o <<"t", "k">>)}
      /\ r.path \in StaticOpenPaths
           => r.cookie \in {Absent, Cookie(Sha256Hex32(AllSecrets[1]))} }

(***************************************************************************)
(* Python helpers used by the handlers.                                    *)
(***************************************************************************)
\* str.startswith(prefix)
startswith(s, prefix) ==
  /\ Len(s) >= Len(prefix)
  /\ SubSeq(s, 1, Len(prefix)) = prefix

\* request.headers.get("authorization", default)
headers_get(h, default) == IF h.present THEN h.value ELSE default

\* Variant of cookie_equals: any fw_auth cookie passes
cookie_equals_PresentOnly(c, expected) == c.present

\* request.cookies.get(COOKIE_NAME) == expected   (None never equals a str)
cookie_equals(c, expected) == c.present /\ c.value = expected

\* The dict json.loads builds from the members of an object: a later member
\* replaces an earlier one of the same name.
RECURSIVE PyDict(_)
PyDict(members) ==
  IF members = <<>> THEN [n \in {} |-> None]
  ELSE LET m == members[Len(members)]
           rest == PyDict(SubSeq(members, 1, Len(members) - 1))
       IN [n \in DOMAIN rest \cup {m[1]} |->
             IF n = m[1] THEN m[2] ELSE rest[n]]

\* json.loads(body) on bytes: decode with the detected encoding (UTF-8, UTF-16
\* or UTF-32), then scan.  The result is either an exception or a value.
json_loads(body) ==
  IF body.enc = "invalid" THEN [exc |-> "UnicodeDecodeError", t |-> "", s |-> "", d |-> PyDict(<<>>)]
  ELSE IF body.syntax = "deep" THEN [exc |-> "RecursionError", t |-> "", s |-> "", d |-> PyDict(<<>>)]
  ELSE IF body.syntax # "value" THEN [exc |-> "JSONDecodeError", t |-> "", s |-> "", d |-> PyDict(<<>>)]
  ELSE [exc |-> "", t |-> body.t, s |-> body.s, d |-> PyDict(body.members)]

\* Variant of dict_get: a missing member reads as the empty string
dict_get_DefaultEmpty(d, name) == IF name \in DOMAIN d THEN d[name] ELSE PyStr("")

\* dict.get(name): the member, or None when it is missing
dict_get(d, name) == IF name \in DOMAIN d THEN d[name] ELSE None

\* Variant of py_eq_str: the comparison folds case
Lower(v) == IF v = "S3cret" THEN "s3cret" ELSE v
py_eq_str_CaseFold(val, str) == val.t = "str" /\ Lower(val.s) = Lower(str)

\* Variant of py_eq_str: blanks around the value are ignored
Strip(v) == IF v = "s3cret " THEN "s3cret" ELSE v
py_eq_str_Strip(val, str) == val.t = "str" /\ Strip(val.s) = str

\* value == a_str   (Python ==: only a str equals a str)
py_eq_str(val, str) == val.t = "str" /\ val.s = str

(***************************************************************************)
(* Responses.  kind is "response" for a response the middleware builds,    *)
(* "call_next" when it awaits the wrapped application, "raise" when an     *)
(* exception leaves the handler.                                           *)
(***************************************************************************)
NoResponse ==
  [kind |-> "none", status |-> 0, body |-> <<>>, location |-> "",
   set_cookie |-> {}, exc |-> ""]

HTMLResponse(content) ==
  [kind |-> "response", status |-> 200, body |-> <<<<"html", content>>>>,
   location |-> "", set_cookie |-> {}, exc |-> ""]

JSONResponse(content, status_code) ==
  [kind |-> "response", status |-> status_code, body |-> content,
   location |-> "", set_cookie |-> {}, exc |-> ""]

RedirectResponse(url, status_code) ==
  [kind |-> "response", status |-> status_code, body |-> <<>>,
   location |-> url, set_cookie |-> {}, exc |-> ""]

call_next ==
  [kind |-> "call_next", status |-> 0, body |-> <<>>, location |-> "",
   set_cookie |-> {}, exc |-> ""]

Raise(e) ==
  [kind |-> "raise", status |-> 0, body |-> <<>>, location |-> "",
   set_cookie |-> {}, exc |-> e]

\* Response.set_cookie(key, value, max_age, httponly, samesite, secure)
set_cookie(resp, key, value, max_age, httponly, samesite, secure) ==
  [resp EXCEPT !.set_cookie = @ \cup
     {[name |-> key, value |-> value, max_age |-> max_age,
       httponly |-> httponly, samesite |-> samesite, secure |-> secure]}]

\* Variant of delete_cookie: the response is returned as it is
delete_cookie_Omitted(resp, key) == resp

\* Response.delete_cookie(key): an expired, empty cookie
delete_cookie(resp, key) == set_cookie(resp, key, "", 0, FALSE, "lax", FALSE)


(***************************************************************************)
(* AuthGateMiddleware.                                                     *)
(***************************************************************************)
\* Variant of _handle_auth_routes: the cookie carries the key itself
_handle_auth_routes_KeyAsCookie(req, path) ==
  IF path = "/login" THEN
    IF API_KEY # "" /\ cookie_equals(req.cookie, COOKIE_VALUE)
      THEN RedirectResponse("/", 302)
    ELSE IF API_KEY = ""
      THEN RedirectResponse("/", 302)
    ELSE HTMLResponse("LOGIN_HTML")
  ELSE IF path = "/auth/validate" /\ req.method = "POST" THEN
    LET data == json_loads(req.body) IN
    IF data.exc \in {"JSONDecodeError", "UnicodeDecodeError"}
      THEN JSONResponse(<<<<"valid", "false">>, <<"error", "Invalid request">>>>, 400)
    ELSE IF data.exc # ""
      THEN Raise(data.exc)
    ELSE IF data.t # "dict"
      THEN Raise("AttributeError")
    ELSE IF py_eq_str(dict_get(data.d, "key"), API_KEY)
      THEN set_cookie(JSONResponse(<<<<"valid", "true">>>>, 200),
                      COOKIE_NAME, API_KEY, COOKIE_MAX_AGE,
                      TRUE, "lax", TRUE)
    ELSE JSONResponse(<<<<"valid", "false">>, <<"error", "Invalid API key">>>>, 401)
  ELSE IF path = "/auth/logout" /\ req.method = "POST" THEN
    delete_cookie(JSONResponse(<<<<"success", "true">>>>, 200), COOKIE_NAME)
  ELSE call_next

\* Variant of _handle_auth_routes: the validate and logout branches do not
\* test the method
_handle_auth_routes_AnyMethod(req, path) ==
  IF path = "/login" THEN
    IF API_KEY # "" /\ cookie_equals(req.cookie, COOKIE_VALUE)
      THEN RedirectResponse("/", 302)
    ELSE IF API_KEY = ""
      THEN RedirectResponse("/", 302)
    ELSE HTMLResponse("LOGIN_HTML")
  ELSE IF path = "/auth/validate" THEN
    LET data == json_loads(req.body) IN
    IF data.exc \in {"JSONDecodeError", "UnicodeDecodeError"}
      THEN JSONResponse(<<<<"valid", "false">>, <<"error", "Invalid request">>>>, 400)
    ELSE IF data.exc # ""
      THEN Raise(data.exc)
    ELSE IF data.t # "dict"
      THEN Raise("AttributeError")
    ELSE IF py_eq_str(dict_get(data.d, "key"), API_KEY)
      THEN set_cookie(JSONResponse(<<<<"valid", "true">>>>, 200),
                      COOKIE_NAME, COOKIE_VALUE, COOKIE_MAX_AGE,
                      TRUE, "lax", TRUE)
    ELSE JSONResponse(<<<<"valid", "false">>, <<"error", "Invalid API key">>>>, 401)
  ELSE IF path = "/auth/logout" THEN
    delete_cookie(JSONResponse(<<<<"success", "true">>>>, 200), COOKIE_NAME)
  ELSE call_next

\* _handle_auth_routes(request, path, call_next)
_handle_auth_routes(req, path) ==
  IF path = "/login" THEN
    IF API_KEY # "" /\ cookie_equals(req.cookie, COOKIE_VALUE)
      THEN RedirectResponse("/", 302)
    ELSE IF API_KEY = ""
      THEN RedirectResponse("/", 302)
    ELSE HTMLResponse("LOGIN_HTML")
  ELSE IF path = "/auth/validate" /\ req.method = "POST" THEN
    LET data == json_loads(req.body) IN
    IF data.exc \in {"JSONDecodeError", "UnicodeDecodeError"}
      THEN JSONResponse(<<<<"valid", "false">>, <<"error", "Invalid request">>>>, 400)
    ELSE IF data.exc # ""
      THEN Raise(data.exc)
    ELSE IF data.t # "dict"
      THEN Raise("AttributeError")
    ELSE IF py_eq_str(dict_get(data.d, "key"), API_KEY)
      THEN set_cookie(JSONResponse(<<<<"valid", "true">>>>, 200),
                      COOKIE_NAME, COOKIE_VALUE, COOKIE_MAX_AGE,
                      TRUE, "lax", TRUE)
    ELSE JSONResponse(<<<<"valid", "false">>, <<"error", "Invalid API key">>>>, 401)
  ELSE IF path = "/auth/logout" /\ req.method = "POST" THEN
    delete_cookie(JSONResponse(<<<<"success", "true">>>>, 200), COOKIE_NAME)
  ELSE call_next

\* Variant of dispatch: any Authorization header passes
dispatch_AnyAuthorization(req) ==
  LET path == req.path IN
  IF path \in OPEN_PATHS THEN _handle_auth_routes(req, path)
  ELSE IF API_KEY = "" THEN
    IF path = "/" THEN HTMLResponse("APP_HTML") ELSE call_next
  ELSE IF req.authorization.present THEN
    call_next
  ELSE IF cookie_equals(req.cookie, COOKIE_VALUE) THEN
    IF path = "/" THEN HTMLResponse("APP_HTML") ELSE call_next
  ELSE RedirectResponse("/login", 302)

\* Variant of dispatch: the cookie is tested before the Bearer header
dispatch_CookieBeforeBearer(req) ==
  LET path == req.path IN
  IF path \in OPEN_PATHS THEN _handle_auth_routes(req, path)
  ELSE IF API_KEY = "" THEN
    IF path = "/" THEN HTMLResponse("APP_HTML") ELSE call_next
  ELSE IF cookie_equals(req.cookie, COOKIE_VALUE) THEN
    IF path = "/" THEN HTMLResponse("APP_HTML") ELSE call_next
  ELSE IF startswith(headers_get(req.authorization, <<>>), BearerPrefix) THEN
    call_next
  ELSE RedirectResponse("/login", 302)

\* Variant of dispatch: the open paths are tested after authentication
dispatch_AuthBeforeOpen(req) ==
  LET path == req.path IN
  IF API_KEY = "" THEN
    IF path \in OPEN_PATHS THEN _handle_auth_routes(req, path)
    ELSE IF path = "/" THEN HTMLResponse("APP_HTML") ELSE call_next
  ELSE IF startswith(headers_get(req.authorization, <<>>), BearerPrefix) THEN
    IF path \in OPEN_PATHS THEN _handle_auth_routes(req, path) ELSE call_next
  ELSE IF cookie_equals(req.cookie, COOKIE_VALUE) THEN
    IF path \in OPEN_PATHS THEN _handle_auth_routes(req, path)
    ELSE IF path = "/" THEN HTMLResponse("APP_HTML") ELSE call_next
  ELSE RedirectResponse("/login", 302)

\* Variant of dispatch: the test for a missing API_KEY is left out
dispatch_NoOpenMode(req) ==
  LET path == req.path IN
  IF path \in OPEN_PATHS THEN _handle_auth_routes(req, path)
  ELSE IF startswith(headers_get(req.authorization, <<>>), BearerPrefix) THEN
    call_next
  ELSE IF cookie_equals(req.cookie, COOKIE_VALUE) THEN
    IF path = "/" THEN HTMLResponse("APP_HTML") ELSE call_next
  ELSE RedirectResponse("/login", 302)

\* Variant of dispatch: a cookie is valid when a validate has issued it
\* (a server-side session table)
dispatch_SessionTable(req) ==
  LET path == req.path IN
  IF path \in OPEN_PATHS THEN _handle_auth_routes(req, path)
  ELSE IF API_KEY = "" THEN
    IF path = "/" THEN HTMLResponse("APP_HTML") ELSE call_next
  ELSE IF startswith(headers_get(req.authorization, <<>>), BearerPrefix) THEN
    call_next
  ELSE IF req.cookie.present /\ req.cookie.value \in issued THEN
    IF path = "/" THEN HTMLResponse("APP_HTML") ELSE call_next
  ELSE RedirectResponse("/login", 302)

\* Variant of dispatch: a path is open when it begins with an open path
\* ("/login/" begins with "/login")
dispatch_OpenByPrefix(req) ==
  LET path == req.path IN
  IF path \in OPEN_PATHS \cup {"/login/"} THEN _handle_auth_routes(req, path)
  ELSE IF API_KEY = "" THEN
    IF path = "/" THEN HTMLResponse("APP_HTML") ELSE call_next
  ELSE IF startswith(headers_get(req.authorization, <<>>), BearerPrefix) THEN
    call_next
  ELSE IF cookie_equals(req.cookie, COOKIE_VALUE) THEN
    IF path = "/" THEN HTMLResponse("APP_HTML") ELSE call_next
  ELSE RedirectResponse("/login", 302)

\* Variant of dispatch: a logout revokes the cookie on the server, so that
\* no cookie is valid right after a POST /auth/logout
dispatch_LogoutRevokes(req) ==
  LET path == req.path IN
  IF path \in OPEN_PATHS THEN _handle_auth_routes(req, path)
  ELSE IF API_KEY = "" THEN
    IF path = "/" THEN HTMLResponse("APP_HTML") ELSE call_next
  ELSE IF startswith(headers_get(req.authorization, <<>>), BearerPrefix) THEN
    call_next
  ELSE IF /\ cookie_equals(req.cookie, COOKIE_VALUE)
          /\ ~(request.path = "/auth/logout" /\ request.method = "POST") THEN
    IF path = "/" THEN HTMLResponse("APP_HTML") ELSE call_next
  ELSE RedirectResponse("/login", 302)

\* dispatch(request, call_next)
dispatch(req) ==
  LET path == req.path IN
  IF path \in OPEN_PATHS THEN _handle_auth_routes(req, path)
  ELSE IF API_KEY = "" THEN
    IF path = "/" THEN HTMLResponse("APP_HTML") ELSE call_next
  ELSE IF startswith(headers_get(req.authorization, <<>>), BearerPrefix) THEN
    call_next
  ELSE IF cookie_equals(req.cookie, COOKIE_VALUE) THEN
    IF path = "/" THEN HTMLResponse("APP_HTML") ELSE call_next
  ELSE RedirectResponse("/login", 302)

(***************************************************************************)
(* The state machine.  The globals are set when the module is imported;    *)
(* afterwards each step is one request handled by the middleware.  A       *)
(* browser sends the cookie of its jar and stores what Set-Cookie tells    *)
(* it; any other client sends whatever cookie it likes.                    *)
(***************************************************************************)
NoRequest ==
  [path |-> "", method |-> "", authorization |-> NoHeader, cookie |-> Absent,
   body |-> EmptyBody]

\* A handler coroutine of the middleware: where it stands, its request, the
\* body it has read, the outcome of the key comparison and its response.
\* The requests of Spec and SpecRestart are handled in one step and leave
\* every coroutine idle.
IdleTask ==
  [pc |-> "idle", req |-> NoRequest, body |-> EmptyBody, outcome |-> "",
   resp |-> NoResponse]

Init ==
  /\ tasks = [i \in Tasks |-> IdleTask]
  /\ API_KEY \in Secrets \cup {""}
  /\ COOKIE_VALUE = DeriveCookieValue(API_KEY)
  /\ jar = [c \in Clients |-> Absent]
  /\ issued = {}
  /\ request = NoRequest
  /\ response = NoResponse

\* The fw_auth values attached by a successful validate
IssuedBy(resp) ==
  {ck.value : ck \in {x \in resp.set_cookie : x.name = COOKIE_NAME /\ x.max_age > 0}}

\* The browser's cookie store after a response
StoreCookies(old, resp) ==
  IF \E ck \in resp.set_cookie : ck.name = COOKIE_NAME
    THEN LET ck == CHOOSE x \in resp.set_cookie : x.name = COOKIE_NAME
         IN IF ck.max_age > 0 THEN Cookie(ck.value) ELSE Absent
    ELSE old

Handle(req) ==
  /\ request' = req
  /\ response' = dispatch(req)
  /\ issued' = issued \cup IssuedBy(dispatch(req))
  /\ UNCHANGED <<API_KEY, COOKIE_VALUE, tasks>>

BrowserRequest(c, req) ==
  /\ req.cookie = jar[c]
  /\ Handle(req)
  /\ jar' = [jar EXCEPT ![c] = StoreCookies(@, dispatch(req))]

RawRequest(req) ==
  /\ Handle(req)
  /\ UNCHANGED jar

Next ==
  \/ \E c \in Clients, req \in Requests : BrowserRequest(c, req)
  \/ \E req \in Requests : RawRequest(req)

Spec == Init /\ [][Next]_vars


(***************************************************************************)
(* Vocabulary of the properties, stated on the last request handled and    *)
(* its outcome, independently of the operators the handlers use.           *)
(***************************************************************************)
Handled == response.kind # "none"
Forwarded == response.kind = "call_next"
Raised == response.kind = "raise"
Answered(status) == response.kind = "response" /\ response.status = status
RedirectedTo(url) == Answered(302) /\ response.location = url
Redirected == Answered(302)
AppPage == Answered(200) /\ response.body = <<<<"html", "APP_HTML">>>>
LoginPage == Answered(200) /\ response.body = <<<<"html", "LOGIN_HTML">>>>

GatingEnabled == API_KEY # ""
DerivedToken == DeriveCookieValue(API_KEY)
ProtectedPath == request.path \notin OPEN_PATHS
AtRoot == request.path = "/"

\* The Authorization header is present and begins with "Bearer "
HasBearer ==
  /\ request.authorization.present
  /\ Len(request.authorization.value) >= 7
  /\ \A i \in 1..7 : request.authorization.value[i] = BearerPrefix[i]

\* The fw_auth cookie is present and equals the Derived Token
HasValidCookie == request.cookie.present /\ request.cookie.value = DerivedToken

ValidatePost == request.path = "/auth/validate" /\ request.method = "POST"
LogoutPost == request.path = "/auth/logout" /\ request.method = "POST"

DecisionList ==
  IF ~ProtectedPath THEN _handle_auth_routes(request, request.path)
  ELSE IF ~GatingEnabled THEN (IF AtRoot THEN HTMLResponse("APP_HTML") ELSE call_next)
  ELSE IF HasBearer THEN call_next
  ELSE IF HasValidCookie THEN (IF AtRoot THEN HTMLResponse("APP_HTML") ELSE call_next)
  ELSE RedirectResponse("/login", 302)

\* C2: for every request the outcome of dispatch is the outcome of the
\* five-step decision list applied in order, first match wins.
C2_DispatchIsDecisionList == Handled => response = DecisionList

\* C2 witness: a request at the root path matching both step 3 (Bearer) and
\* step 4 (valid cookie) is forwarded, as the earlier step decides.
C2_Witness ==
  /\ GatingEnabled /\ AtRoot /\ HasBearer /\ HasValidCookie
  /\ Forwarded

\* C3 as stated: every request with a Bearer-prefixed Authorization header,
\* to any path and in any configuration, is forwarded.
C3_Original == (Handled /\ HasBearer) => Forwarded

\* The requests the Gate answers before it looks at the Authorization header
AnsweredBeforeBearer ==
  \/ request.path = "/login"
  \/ ValidatePost
  \/ LogoutPost
  \/ (~GatingEnabled /\ AtRoot)

\* C3 amended: a request with a Bearer-prefixed Authorization header is
\* forwarded whatever its cookie, except on the requests the Gate answers
\* before it looks at the header (/login, POST /auth/validate,
\* POST /auth/logout, and the root path when no secret is set), which are
\* not forwarded.
C3_BearerForwarded ==
  (Handled /\ HasBearer) => (Forwarded <=> ~AnsweredBeforeBearer)

\* C3 witness: a Bearer request carrying a valid cookie to the root path of
\* a gated deployment is forwarded instead of being served the application
\* page.
C3_Witness ==
  /\ GatingEnabled /\ HasBearer /\ request.cookie = Cookie(DerivedToken)
  /\ AtRoot /\ request.method = "POST" /\ Forwarded

\* C4 as stated: with no secret every request is forwarded or, at the root
\* path, answered with the application page; none is redirected.
C4_Original ==
  (Handled /\ ~GatingEnabled)
    => ((Forwarded \/ (AtRoot /\ AppPage)) /\ ~Redirected)

\* C4 amended: with no secret, every request to a path outside the Open Path
\* Set is forwarded or, at the root path, answered with the application
\* page; no request is redirected to the login path, and the only redirect
\* is the one from /login to the root path.
C4_OpenMode ==
  (Handled /\ ~GatingEnabled)
    => /\ ProtectedPath => (IF AtRoot THEN AppPage ELSE Forwarded)
       /\ ~RedirectedTo("/login")
       /\ Redirected <=> request.path = "/login"
       /\ Redirected => response.location = "/"

\* C4 witness: with no secret, a request without any credentials to a
\* protected API path is forwarded.
C4_Witness ==
  /\ ~GatingEnabled /\ request.path = "/v1/models"
  /\ ~request.authorization.present /\ ~request.cookie.present
  /\ Forwarded

\* C5: a request to a path of the Open Path Set is never answered with a 302
\* redirect to the login path, in any configuration or authentication state.
C5_OpenPathNeverToLogin ==
  (Handled /\ request.path \in OPEN_PATHS) => ~RedirectedTo("/login")

\* C5 witness: an unauthenticated request to /login of a gated deployment
\* gets the login page.
C5_Witness ==
  /\ GatingEnabled /\ request.path = "/login"
  /\ ~HasBearer /\ ~HasValidCookie
  /\ LoginPage


(***************************************************************************)
(* The validate endpoint.  The properties read the request body as JSON    *)
(* text: an object whose "key" member is named more than once denotes the  *)
(* last one.                                                               *)
(***************************************************************************)
\* The body is a JSON text (in UTF-8, or in UTF-16 with a byte order mark)
\* that denotes an object
IsJsonObject(b) == b.enc # "invalid" /\ b.syntax = "value" /\ b.t = "dict"

\* The body is a JSON text denoting something other than an object
IsOtherJsonValue(b) == b.enc # "invalid" /\ b.syntax = "value" /\ b.t # "dict"

\* The body is not parseable JSON, or is not valid UTF-8
NotJsonOrNotUtf8(b) == b.syntax # "value" \/ b.enc # "utf-8"

\* The key field of an object, None when it has none
KeyField(b) ==
  LET at == {i \in DOMAIN b.members : b.members[i][1] = "key"}
  IN IF at = {} THEN None
     ELSE b.members[CHOOSE i \in at : \A j \in at : j <= i][2]

KeyMatches(b) == KeyField(b) = PyStr(API_KEY)

SessionCookie ==
  [name |-> "fw_auth", value |-> DerivedToken, max_age |-> 2592000,
   httponly |-> TRUE, samesite |-> "lax", secure |-> TRUE]

ValidTrue == <<<<"valid", "true">>>>
InvalidKey == <<<<"valid", "false">>, <<"error", "Invalid API key">>>>
InvalidRequest == <<<<"valid", "false">>, <<"error", "Invalid request">>>>

\* C6: a POST to /auth/validate whose body is a JSON object with a key field
\* equal to the secret gets 200 {"valid": true} and a Set-Cookie of fw_auth
\* with the Derived Token; the comparison is exact, so an object whose key
\* differs in case or by surrounding blanks gets neither.
C6_ValidateAccepts ==
  (Handled /\ ValidatePost /\ IsJsonObject(request.body))
    => IF KeyMatches(request.body)
         THEN /\ Answered(200)
              /\ response.body = ValidTrue
              /\ response.set_cookie = {SessionCookie}
         ELSE ~Answered(200) /\ response.body # ValidTrue

\* C6 witness: with a non-empty secret, the object carrying exactly the
\* secret is accepted and the Derived Token is attached.
C6_Witness ==
  /\ GatingEnabled /\ ValidatePost
  /\ request.body = Object("utf-8", <<<<"key", PyStr(API_KEY)>>>>)
  /\ Answered(200) /\ response.body = ValidTrue
  /\ \E ck \in response.set_cookie : ck.value = Sha256Hex32(API_KEY)

\* C7: a POST to /auth/validate whose body is a JSON object whose key field
\* is absent or differs from the secret gets 401 {"valid": false, "error":
\* "Invalid API key"} and no cookie.
C7_ValidateRejects ==
  (Handled /\ ValidatePost /\ IsJsonObject(request.body) /\ ~KeyMatches(request.body))
    => (Answered(401) /\ response.body = InvalidKey /\ response.set_cookie = {})

\* C7 witness: an object without a key field is rejected with 401 when no
\* secret is configured.
C7_Witness ==
  /\ ~GatingEnabled /\ ValidatePost
  /\ request.body = Object("utf-8", <<>>)
  /\ Answered(401) /\ response.set_cookie = {}

\* C8: a POST to /auth/validate whose body is not parseable JSON or not valid
\* UTF-8 (an empty body included) gets 400 {"valid": false, "error": "Invalid
\* request"}, no cookie, and is not forwarded.
C8_MalformedBodyIs400 ==
  (Handled /\ ValidatePost /\ NotJsonOrNotUtf8(request.body))
    => /\ Answered(400)
       /\ response.body = InvalidRequest
       /\ response.set_cookie = {}
       /\ ~Forwarded

\* C9: every POST to /auth/validate, whatever its body, ends in one of the
\* responses 200, 401 or 400 and never in an unhandled error.
C9_ValidateAlwaysAnswers ==
  (Handled /\ ValidatePost)
    => (~Raised /\ (Answered(200) \/ Answered(401) \/ Answered(400)))

\* C10: with a non-empty secret, a request to a protected path carrying the
\* fw_auth value issued by a successful validate is never redirected: it is
\* forwarded or, at the root path, answered with the application page.
C10_IssuedCookieAccepted ==
  (Handled /\ GatingEnabled /\ ProtectedPath
     /\ request.cookie.present /\ request.cookie.value \in issued)
    => (~Redirected /\ (Forwarded \/ (AtRoot /\ AppPage)))

\* C10 witness: a browser that logged in sends the stored cookie, without
\* any Authorization header, to a protected API path and is forwarded.
C10_Witness ==
  /\ GatingEnabled /\ request.path = "/v1/models"
  /\ ~request.authorization.present
  /\ request.cookie.present /\ request.cookie.value \in issued
  /\ \E c \in Clients : jar[c] = request.cookie
  /\ Forwarded


(***************************************************************************)
(* Logout, the login page and the cookie a client holds.                   *)
(***************************************************************************)
SuccessTrue == <<<<"success", "true">>>>

\* The Set-Cookie that tells the client to drop fw_auth
DeletionCookie(ck) == ck.name = "fw_auth" /\ ck.value = "" /\ ck.max_age = 0

\* C11: a POST to /auth/logout gets 200 {"success": true} with a
\* cookie-deletion instruction for fw_auth, whatever the cookie, the
\* Authorization header and the configuration; it is not forwarded.
C11_LogoutAlwaysSucceeds ==
  (Handled /\ LogoutPost)
    => /\ Answered(200)
       /\ response.body = SuccessTrue
       /\ response.set_cookie # {}
       /\ \A ck \in response.set_cookie : DeletionCookie(ck)
       /\ ~Forwarded

\* C11 witness: a logout without any cookie, with a Bearer header, on a gated
\* deployment is answered 200 with the deletion instruction.
C11_Witness ==
  /\ GatingEnabled /\ LogoutPost
  /\ ~request.cookie.present /\ HasBearer
  /\ Answered(200) /\ response.body = SuccessTrue
  /\ \E ck \in response.set_cookie : DeletionCookie(ck)

\* C12: a request to /login gets a 302 to the root path if gating is
\* disabled or its fw_auth cookie equals the Derived Token, and the login
\* page (200) otherwise, whatever the method and the Authorization header;
\* it is never forwarded.
C12_LoginPageOrRoot ==
  (Handled /\ request.path = "/login")
    => /\ IF ~GatingEnabled \/ HasValidCookie
            THEN RedirectedTo("/")
            ELSE LoginPage
       /\ ~Forwarded
       /\ response.set_cookie = {}

\* C12 witness: a POST to /login with a Bearer header and a cookie that is
\* not the Derived Token gets the login page.
C12_Witness ==
  /\ GatingEnabled /\ request.path = "/login" /\ request.method = "POST"
  /\ HasBearer /\ request.cookie.present /\ ~HasValidCookie
  /\ LoginPage

\* C13: within one process lifetime every Set-Cookie issued by a successful
\* validate carries the same fw_auth value, the Derived Token computed at
\* startup.
C13_OneTokenPerLifetime ==
  /\ \A v \in issued : v = DerivedToken
  /\ \A v, w \in issued : v = w
  /\ COOKIE_VALUE = DerivedToken

\* C13 witness: a successful validate by a request that already carries the
\* token an earlier successful validate stored in a browser; both carry the
\* same value.
C13_Witness ==
  /\ GatingEnabled /\ ValidatePost /\ Answered(200)
  /\ request.cookie = Cookie(DerivedToken)
  /\ \E c \in Clients : jar[c] = request.cookie
  /\ issued = {request.cookie.value}

\* C14: the Derived Token is non-empty exactly when the secret is non-empty,
\* and no fw_auth value sent in a validate response equals the secret.
C14_TokenNeverTheSecret ==
  /\ (COOKIE_VALUE # "") <=> (API_KEY # "")
  /\ \A v \in issued : v # API_KEY

\* A client is Authenticated when the cookie it holds is the Derived Token
Authenticated(c) == jar[c] = Cookie(DerivedToken)

\* The step just taken handled a POST /auth/validate whose key is the secret
SuccessfulValidateStep ==
  /\ request'.path = "/auth/validate" /\ request'.method = "POST"
  /\ IsJsonObject(request'.body)
  /\ KeyField(request'.body) = PyStr(API_KEY)
  /\ response'.kind = "response" /\ response'.status = 200

\* C15: a client starts Unauthenticated (no cookie), and its cookie becomes
\* the Derived Token only by a POST /auth/validate whose key equals the
\* secret; no other request or response makes it Authenticated.
C15_OnlyValidateAuthenticates ==
  /\ \A c \in Clients : jar[c] = Absent
  /\ [][\A c \in Clients :
          (~Authenticated(c) /\ Authenticated(c)')
            => (SuccessfulValidateStep /\ request'.cookie = jar[c])]_vars

\* C15 witness: a browser without a cookie has validated with the secret and
\* now holds the Derived Token.
C15_Witness ==
  /\ GatingEnabled /\ ValidatePost /\ Answered(200)
  /\ request.cookie = Absent /\ ~request.authorization.present
  /\ KeyMatches(request.body)
  /\ \E c \in Clients : Authenticated(c)


\* The request r carries an Authorization header beginning with "Bearer "
BearerIn(r) ==
  /\ r.authorization.present
  /\ Len(r.authorization.value) >= 7
  /\ \A i \in 1..7 : r.authorization.value[i] = BearerPrefix[i]

\* Client c, honouring Set-Cookie, logs out
LogsOut(c) ==
  \E r \in Requests :
    /\ r.path = "/auth/logout" /\ r.method = "POST"
    /\ BrowserRequest(c, r)
    /\ ~Authenticated(c)'

\* Client c, honouring Set-Cookie, validates with the secret
LogsIn(c) ==
  \E r \in Requests :
    /\ r.path = "/auth/validate" /\ r.method = "POST"
    /\ BrowserRequest(c, r)
    /\ Authenticated(c)'

\* C16: with a non-empty secret, a client that honours the cookie
\* instructions is Unauthenticated after POST /auth/logout; while
\* Unauthenticated, its requests without a Bearer header to protected paths
\* are redirected to /login, and it stays Unauthenticated until a successful
\* validate; an Authenticated client can always log out and an
\* Unauthenticated one can always log in, so the cycle never ends.
C16_LogoutCycle ==
  /\ [][\A c \in Clients :
          (GatingEnabled /\ request' # NoRequest /\ request'.cookie = jar[c]
             /\ jar' = [jar EXCEPT ![c] = StoreCookies(@, response')])
            => /\ (request'.path = "/auth/logout" /\ request'.method = "POST")
                    => (jar'[c] = Absent /\ ~Authenticated(c)')
               /\ (~Authenticated(c) /\ request'.path \notin OPEN_PATHS
                     /\ ~BearerIn(request'))
                    => (response'.kind = "response" /\ response'.status = 302
                          /\ response'.location = "/login")
               /\ (~Authenticated(c) /\ ~SuccessfulValidateStep)
                    => ~Authenticated(c)']_vars
  /\ [](GatingEnabled =>
          \A c \in Clients :
            IF Authenticated(c) THEN ENABLED LogsOut(c) ELSE ENABLED LogsIn(c))

\* C16 witness: a logout that carried the issued Derived Token has been
\* answered, and the browser holds no cookie any more.
C16_Witness ==
  /\ GatingEnabled /\ LogoutPost /\ Answered(200)
  /\ request.cookie = Cookie(DerivedToken) /\ DerivedToken \in issued
  /\ ~HasBearer
  /\ \A c \in Clients : jar[c] = Absent


(***************************************************************************)
(* Process restart.  The module is imported again with whatever API_KEY    *)
(* the environment now holds; the clients keep their cookies.  Between     *)
(* restarts the requests are those of RestartRequests.                     *)
(***************************************************************************)
Restart ==
  /\ \E k \in Secrets \cup {""} :
        /\ API_KEY' = k
        /\ COOKIE_VALUE' = DeriveCookieValue(k)
  /\ request' = NoRequest
  /\ response' = NoResponse
  /\ UNCHANGED <<jar, issued, tasks>>

RestartRequests ==
  { r \in Requests :
      /\ \/ r.path \in {"/auth/validate", "/auth/logout"} /\ r.method = "POST"
         \/ r.path \in {"/", "/v1/models"} /\ r.method = "GET"
      /\ r.authorization \in {NoHeader, Header(BearerPrefix \o <<"t", "k">>)}
      /\ r.body \in {EmptyBody} \cup
                    {Object("utf-8", <<<<"key", PyStr(k)>>>>) : k \in Secrets} }

NextRestart ==
  \/ \E c \in Clients, req \in RestartRequests : BrowserRequest(c, req)
  \/ \E req \in RestartRequests : RawRequest(req)
  \/ Restart

SpecRestart == Init /\ [][NextRestart]_vars

\* The request's cookie is a value issued under a secret other than the
\* current one
CookieOfPreviousSecret ==
  /\ request.cookie.present
  /\ request.cookie.value \in issued
  /\ \E k \in Secrets : k # API_KEY /\ request.cookie.value = DeriveCookieValue(k)

\* C17: after a restart with a different non-empty secret, a request without
\* a Bearer header that carries the fw_auth value issued under the previous
\* secret to a protected path is redirected to /login.
C17_OldTokenRejected ==
  (Handled /\ GatingEnabled /\ ProtectedPath /\ ~HasBearer /\ CookieOfPreviousSecret)
    => (RedirectedTo("/login") /\ ~Forwarded)

\* C17 witness: a browser that logged in under the previous secret sends its
\* stored cookie to a protected API path after the restart and is redirected.
C17_Witness ==
  /\ GatingEnabled /\ request.path = "/v1/models"
  /\ ~request.authorization.present
  /\ CookieOfPreviousSecret /\ request.cookie.value # DerivedToken
  /\ \E c \in Clients : jar[c] = request.cookie
  /\ RedirectedTo("/login")


\* The requests whose decision is compared before and after every step
ProbeRequests ==
  { [path |-> p, method |-> "GET", authorization |-> NoHeader, cookie |-> ck,
     body |-> EmptyBody] : p \in {"/", "/login"}, ck \in Cookies }
  \cup
  { [path |-> "/auth/validate", method |-> "POST", authorization |-> NoHeader,
     cookie |-> Absent,
     body |-> Object("utf-8", <<<<"key", PyStr(AllSecrets[1])>>>>)] }

\* C18: no request changes the secret or the Derived Token, and the Gate's
\* decision for any given request is the same after the step as before it,
\* hence the same wherever the request occurs in a sequence of requests.
\* (Every step that handles a request leaves request' other than NoRequest;
\* a restart is not a request.)
C18_GateIsStateless ==
  [][(request' # NoRequest)
       => /\ API_KEY' = API_KEY
          /\ COOKIE_VALUE' = COOKIE_VALUE
          /\ \A r \in ProbeRequests : dispatch(r)' = dispatch(r)]_vars

\* C18 witness: after a validate has issued the Derived Token and no browser
\* holds it any more, a request carrying it to the root path still gets the
\* application page.
C18_Witness ==
  /\ GatingEnabled /\ AtRoot /\ ~HasBearer
  /\ request.cookie = Cookie(DerivedToken) /\ DerivedToken \in issued
  /\ \A c \in Clients : jar[c] = Absent
  /\ AppPage


(***************************************************************************)
(* Concurrent handling.  Every request runs dispatch in a coroutine of its *)
(* own; the coroutines interleave at the awaits (request.body(),           *)
(* call_next) and, under a worker pool, between any two statements.  The   *)
(* validate branch is split into its statements: the body read, the        *)
(* parse and comparison, and the construction of the response.             *)
(***************************************************************************)
ConcRequests ==
  { [path |-> "/auth/validate", method |-> "POST", authorization |-> NoHeader,
     cookie |-> Absent, body |-> b] :
       b \in { Object("utf-8", <<<<"key", PyStr(AllSecrets[1])>>>>),
               Object("utf-8", <<<<"key", PyStr("wrong")>>>>),
               Body("utf-8", "garbage", None, <<>>),
               Body("utf-8", "value", [t |-> "list", s |-> ""], <<>>) } }
  \cup
  { [path |-> "/v1/models", method |-> "GET", authorization |-> NoHeader,
     cookie |-> ck, body |-> EmptyBody] :
       ck \in {Absent, Cookie(Sha256Hex32(AllSecrets[1]))} }
  \cup
  { [path |-> "/auth/logout", method |-> "POST", authorization |-> NoHeader,
     cookie |-> Absent, body |-> EmptyBody] }

\* Variant of AwaitsBody: every POST to an open path reads the body
AwaitsBody_AnyOpenPost(req) == req.path \in OPEN_PATHS /\ req.method = "POST"

\* The branch of dispatch that awaits request.body(): the validate branch of
\* _handle_auth_routes, entered from the open-path test
AwaitsBody(req) ==
  req.path \in OPEN_PATHS /\ req.path = "/auth/validate" /\ req.method = "POST"

\* The request arrives and its coroutine is created
Arrive(i, req) ==
  /\ tasks[i].pc = "idle"
  /\ tasks' = [tasks EXCEPT ![i] = [IdleTask EXCEPT !.pc = "dispatch", !.req = req]]
  /\ UNCHANGED <<API_KEY, COOKIE_VALUE, jar, issued, request, response>>

\* dispatch up to its first await: POST /auth/validate awaits the body, a
\* passed-through request awaits call_next, every other request is answered
RunDispatch(i) ==
  /\ tasks[i].pc = "dispatch"
  /\ LET req == tasks[i].req IN
     IF AwaitsBody(req)
       THEN /\ tasks' = [tasks EXCEPT ![i].pc = "await_body"]
            /\ UNCHANGED issued
       ELSE LET r == dispatch(req) IN
            IF r.kind = "call_next"
              THEN /\ tasks' = [tasks EXCEPT ![i].pc = "await_call_next"]
                   /\ UNCHANGED issued
              ELSE /\ tasks' = [tasks EXCEPT ![i].pc = "done", ![i].resp = r]
                   /\ issued' = issued \cup IssuedBy(r)
  /\ UNCHANGED <<API_KEY, COOKIE_VALUE, jar, request, response>>

\* Variant of ReadBody: the coroutine awaits the body again after reading it
ReadBody_Again(i) ==
  /\ tasks[i].pc = "await_body"
  /\ tasks' = [tasks EXCEPT ![i].body = tasks[i].req.body]
  /\ UNCHANGED <<API_KEY, COOKIE_VALUE, jar, issued, request, response>>

\* body = await request.body()
ReadBody(i) ==
  /\ tasks[i].pc = "await_body"
  /\ tasks' = [tasks EXCEPT ![i].body = tasks[i].req.body, ![i].pc = "loads"]
  /\ UNCHANGED <<API_KEY, COOKIE_VALUE, jar, issued, request, response>>

\* Variant of LocalBody: the body is kept in an attribute of the middleware
\* instance, which all coroutines share
LocalBody_Shared(i) ==
  tasks[CHOOSE j \in Tasks : tasks[j].pc = "loads"
                               /\ \A k \in Tasks : tasks[k].pc = "loads" => j <= k].body

\* The local variable body of coroutine i
LocalBody(i) == tasks[i].body

\* data = json.loads(body) and data.get("key") == API_KEY: what the
\* statements after the body read come to
CompareKey(body) ==
  LET data == json_loads(body) IN
  IF data.exc \in {"JSONDecodeError", "UnicodeDecodeError"} THEN "invalid"
  ELSE IF data.exc # "" THEN data.exc
  ELSE IF data.t # "dict" THEN "AttributeError"
  ELSE IF py_eq_str(dict_get(data.d, "key"), API_KEY) THEN "match"
  ELSE "mismatch"

ParseAndCompare(i) ==
  /\ tasks[i].pc = "loads"
  /\ tasks' = [tasks EXCEPT ![i].outcome = CompareKey(LocalBody(i)),
                            ![i].pc = "respond"]
  /\ UNCHANGED <<API_KEY, COOKIE_VALUE, jar, issued, request, response>>

\* The response (or the exception) the validate branch ends with
ValidateResponse(outcome) ==
  IF outcome = "invalid"
    THEN JSONResponse(<<<<"valid", "false">>, <<"error", "Invalid request">>>>, 400)
  ELSE IF outcome = "match"
    THEN set_cookie(JSONResponse(<<<<"valid", "true">>>>, 200),
                    COOKIE_NAME, COOKIE_VALUE, COOKIE_MAX_AGE, TRUE, "lax", TRUE)
  ELSE IF outcome = "mismatch"
    THEN JSONResponse(<<<<"valid", "false">>, <<"error", "Invalid API key">>>>, 401)
  ELSE Raise(outcome)

Respond(i) ==
  /\ tasks[i].pc = "respond"
  /\ tasks' = [tasks EXCEPT ![i].resp = ValidateResponse(tasks[i].outcome),
                            ![i].pc = "done"]
  /\ issued' = issued \cup IssuedBy(ValidateResponse(tasks[i].outcome))
  /\ UNCHANGED <<API_KEY, COOKIE_VALUE, jar, request, response>>

\* return await call_next(request): the wrapped application has responded
CallNextReturns(i) ==
  /\ tasks[i].pc = "await_call_next"
  /\ tasks' = [tasks EXCEPT ![i].resp = call_next, ![i].pc = "done"]
  /\ UNCHANGED <<API_KEY, COOKIE_VALUE, jar, issued, request, response>>

NextConc ==
  \/ \E i \in Tasks, req \in ConcRequests : Arrive(i, req)
  \/ \E i \in Tasks : RunDispatch(i)
  \/ \E i \in Tasks : ReadBody(i)
  \/ \E i \in Tasks : ParseAndCompare(i)
  \/ \E i \in Tasks : Respond(i)
  \/ \E i \in Tasks : CallNextReturns(i)

SpecConc == Init /\ [][NextConc]_vars

\* The event loop runs every coroutine that can run; the body read completes
\* and the wrapped application responds.
SpecConcFair ==
  /\ SpecConc
  /\ \A i \in Tasks :
       /\ WF_vars(RunDispatch(i))
       /\ WF_vars(ReadBody(i))
       /\ WF_vars(ParseAndCompare(i))
       /\ WF_vars(Respond(i))
       /\ WF_vars(CallNextReturns(i))


\* The coroutines that have ended (with a response, the wrapped
\* application's response, or an exception)
Done == {i \in Tasks : tasks[i].pc = "done"}

IsValidatePost(r) == r.path = "/auth/validate" /\ r.method = "POST"

\* C19: under every interleaving of the steps of concurrent requests, each
\* POST /auth/validate ends with the response it gets when handled alone,
\* and the cookies issued are those of the requests answered, whatever the
\* order.
C19_ValidateCommutes ==
  /\ \A i \in Done :
        IsValidatePost(tasks[i].req) => tasks[i].resp = dispatch(tasks[i].req)
  /\ issued = UNION {IssuedBy(dispatch(tasks[i].req)) : i \in Done}

\* C19 witness: a validate with a wrong key has been answered 401 while a
\* validate with the secret, already compared, is about to be answered; no
\* cookie has been issued yet.
C19_Witness ==
  /\ GatingEnabled /\ issued = {}
  /\ \E i, j \in Tasks :
        /\ tasks[i].pc = "done" /\ IsValidatePost(tasks[i].req)
        /\ tasks[i].resp.status = 401
        /\ tasks[j].pc = "respond" /\ tasks[j].outcome = "match"

\* C20: given that body reads complete and the wrapped application responds,
\* every request that has arrived eventually ends: no coroutine waits for
\* another one.
C20_EveryRequestEnds ==
  \A i \in Tasks : (tasks[i].pc # "idle") ~> (tasks[i].pc = "done")

\* C20 witness: all coroutines have ended, one with a response of the
\* validate branch and one with the wrapped application's response.
C20_Witness ==
  /\ Done = Tasks
  /\ \E i, j \in Tasks :
        /\ IsValidatePost(tasks[i].req) /\ tasks[i].resp.kind = "response"
        /\ tasks[j].resp.kind = "call_next"

(***************************************************************************)
(* Cookie attributes, other Authorization schemes and the root path.       *)
(***************************************************************************)
\* A Set-Cookie that stores a value instead of dropping the cookie
NonDeleting(ck) == ck.value # "" \/ ck.max_age > 0

SuccessfulValidate == ValidatePost /\ Answered(200)

\* C21: the cookie attached by a successful validate is named fw_auth and
\* carries max-age 2592000 seconds (30 * 24 * 60 * 60), HttpOnly,
\* SameSite=Lax and Secure; no other response of the Gate sets a cookie with
\* a non-deleting value.
C21_SessionCookieAttributes ==
  Handled =>
    IF SuccessfulValidate
      THEN /\ Cardinality(response.set_cookie) = 1
           /\ \A ck \in response.set_cookie :
                /\ ck.name = "fw_auth"
                /\ ck.max_age = 2592000
                /\ ck.max_age = 30 * 24 * 60 * 60
                /\ ck.httponly
                /\ ck.samesite = "lax"
                /\ ck.secure
      ELSE \A ck \in response.set_cookie : ~NonDeleting(ck)

\* C21 witness: a successful validate sent with a Bearer header and an old
\* cookie has attached a cookie of thirty days.
C21_Witness ==
  /\ GatingEnabled /\ SuccessfulValidate /\ HasBearer /\ request.cookie.present
  /\ \E ck \in response.set_cookie :
       NonDeleting(ck) /\ ck.max_age = 2592000 /\ ck.secure /\ ck.httponly

C23_Original ==
  (Handled /\ GatingEnabled /\ AtRoot /\ HasValidCookie)
    => (AppPage /\ ~Forwarded)

\* C23 amended: with a non-empty secret, every request to the root path
\* whose fw_auth equals the Derived Token gets the application page and is
\* not forwarded, whatever its other headers, unless its Authorization
\* header begins with "Bearer ": then it is forwarded.
C23_RootServesAppPage ==
  (Handled /\ GatingEnabled /\ AtRoot /\ HasValidCookie)
    => IF HasBearer THEN (Forwarded /\ ~AppPage) ELSE (AppPage /\ ~Forwarded)

\* C23 witness: a request to the root path with the Derived Token as cookie and
\* an Authorization header of another scheme gets the application page.
C23_Witness ==
  /\ GatingEnabled /\ AtRoot /\ HasValidCookie
  /\ request.authorization.present /\ ~HasBearer
  /\ AppPage

(***************************************************************************)
(* What an unauthenticated caller can tell about the configuration.  The   *)
(* same request is decided under a non-empty secret and, after a restart   *)
(* without a secret, under the empty one.                                  *)
(***************************************************************************)
LeakProbes ==
  { [path |-> p, method |-> "GET", authorization |-> a, cookie |-> ck,
     body |-> EmptyBody] :
       p \in {"/", "/v1/models", "/login", "/health"},
       a \in {NoHeader, Header(<<"B", "a", "s", "i", "c", " ", "x">>)},
       ck \in {Absent, Cookie(AllSecrets[1])} }
  \cup
  { [path |-> "/auth/validate", method |-> "POST", authorization |-> NoHeader,
     cookie |-> Absent, body |-> b] :
       b \in { Object("utf-8", <<<<"key", PyStr("")>>>>),
               Object("utf-8", <<<<"key", PyStr("wrong")>>>>),
               Object("utf-8", <<>>),
               Body("utf-8", "garbage", None, <<>>) } }
  \cup
  { [path |-> "/auth/logout", method |-> "POST", authorization |-> NoHeader,
     cookie |-> Absent, body |-> EmptyBody] }

Is302(resp) == resp.kind = "response" /\ resp.status = 302

\* C24: for every request without a Bearer header and without an fw_auth
\* equal to the Derived Token, the response under a non-empty secret and the
\* response under the empty secret are identical unless at least one of the
\* two is a 302 redirect.
C24_NoLeakBeyondRedirect ==
  [][(API_KEY # "" /\ API_KEY' = "")
       => \A r \in LeakProbes :
            (~BearerIn(r) /\ r.cookie # Cookie(DerivedToken))
              => \/ dispatch(r)' = dispatch(r)
                 \/ Is302(dispatch(r))
                 \/ Is302(dispatch(r)')]_vars

(***************************************************************************)
(* The open paths the Gate has no route for, the methods of the auth       *)
(* routes and the paths that extend an open path.                          *)
(***************************************************************************)
\* C25: requests to /health, /docs, /openapi.json and /favicon.ico are
\* forwarded, for every method, cookie, Authorization header and
\* configuration; the Gate does not answer them and sets or deletes no
\* cookie on them.
C25_StaticOpenPathsForwarded ==
  (Handled /\ request.path \in {"/health", "/docs", "/openapi.json", "/favicon.ico"})
    => /\ Forwarded
       /\ response.status = 0 /\ response.body = <<>> /\ response.location = ""
       /\ response.set_cookie = {}

\* C25 witness: a POST to /health without cookie or Authorization header on
\* a gated deployment is forwarded.
C25_Witness ==
  /\ GatingEnabled /\ request.path = "/health" /\ request.method = "POST"
  /\ ~request.cookie.present /\ ~request.authorization.present
  /\ Forwarded

\* C26: a request to /auth/validate or /auth/logout with a method other than
\* POST is forwarded whatever its cookie and Authorization header; the Gate
\* neither sets nor deletes fw_auth on it, nor reads its body.
C26_OtherMethodsForwarded ==
  (Handled /\ request.path \in {"/auth/validate", "/auth/logout"}
     /\ request.method # "POST")
    => /\ Forwarded
       /\ response.set_cookie = {}
       /\ ~AwaitsBody(request)

\* C26 witness: a GET to /auth/logout carrying the Derived Token on a gated
\* deployment is forwarded and no cookie is deleted.
C26_Witness ==
  /\ GatingEnabled /\ request.path = "/auth/logout" /\ request.method = "GET"
  /\ HasValidCookie /\ ~HasBearer
  /\ Forwarded /\ response.set_cookie = {}

(***************************************************************************)
(* The outcome of a coroutine and what it did with its request.            *)
(***************************************************************************)
\* Coroutine i awaits, or has read, the body of its request
BodyTouched(i) ==
  \/ tasks[i].pc \in {"await_body", "loads", "respond"}
  \/ tasks[i].body # EmptyBody
  \/ tasks[i].outcome # ""

\* Coroutine i has handed its request to the wrapped application
ForwardedTask(i) ==
  \/ tasks[i].pc = "await_call_next"
  \/ tasks[i].pc = "done" /\ tasks[i].resp.kind = "call_next"

\* C27: the Gate reads the request body only on POST /auth/validate, which
\* it never forwards, so no forwarded request has had its body read; and the
\* request a coroutine holds (path, headers, cookie, body) is never altered
\* between its arrival and its end.
C27_ForwardedVerbatim ==
  /\ [](\A i \in Tasks :
          /\ BodyTouched(i) => IsValidatePost(tasks[i].req)
          /\ IsValidatePost(tasks[i].req) => ~ForwardedTask(i)
          /\ ForwardedTask(i) => ~BodyTouched(i))
  /\ [][\A i \in Tasks :
          tasks[i].pc # "idle" => tasks'[i].req = tasks[i].req]_vars

\* C27 witness: one coroutine awaits the wrapped application with a request
\* that carries a cookie, while another has read the body of a validate.
C27_Witness ==
  \E i, j \in Tasks :
    /\ tasks[i].pc = "await_call_next" /\ tasks[i].req.cookie.present
    /\ tasks[i].body = EmptyBody
    /\ tasks[j].pc = "loads" /\ tasks[j].body = tasks[j].req.body
    /\ tasks[j].body # EmptyBody

\* C28: membership in the Open Path Set is exact equality of the path: with
\* a non-empty secret, a request without a valid cookie and without a Bearer
\* header to a path that extends an open path ("/login/") is redirected to
\* /login like any protected path; it gets neither the login page nor a
\* forward.
C28_OpenPathsExact ==
  (Handled /\ GatingEnabled /\ request.path = "/login/"
     /\ ~HasBearer /\ ~HasValidCookie)
    => (RedirectedTo("/login") /\ ~Forwarded /\ ~LoginPage)

\* C28 witness: a GET to /login/ without cookie or Authorization header on a
\* gated deployment is redirected to /login.
C28_Witness ==
  /\ GatingEnabled /\ request.path = "/login/" /\ request.method = "GET"
  /\ ~request.cookie.present /\ ~request.authorization.present
  /\ RedirectedTo("/login")

\* C29: every request gets exactly one outcome, a direct response of the
\* Gate or a forward: a coroutine that has ended holds either a response or
\* the wrapped application's answer, one that awaits the wrapped application
\* has produced no response, and a coroutine forwards only if it answers
\* nothing itself.
C29_ExactlyOneOutcome ==
  \A i \in Tasks :
    /\ tasks[i].pc = "done" => tasks[i].resp.kind \in {"response", "call_next"}
    /\ tasks[i].pc # "done" => tasks[i].resp = NoResponse
    /\ ForwardedTask(i) => tasks[i].resp \in {NoResponse, call_next}

(***************************************************************************)
(* A client that follows a redirect with the same cookie and headers.      *)
(***************************************************************************)
\* The request the client sends when it follows the redirect it received
FollowUp ==
  [request EXCEPT !.path = response.location, !.method = "GET",
                  !.body = EmptyBody]

\* C30: in every configuration, for a fixed cookie and fixed headers the
\* root path redirecting to /login and /login redirecting to the root path
\* exclude each other, and the request that follows any redirect of the Gate
\* is not answered with another redirect.
C30_NoRedirectLoop ==
  /\ ~( /\ Is302(dispatch([request EXCEPT !.path = "/"]))
        /\ Is302(dispatch([request EXCEPT !.path = "/login"])) )
  /\ (Handled /\ Redirected) => ~Is302(dispatch(FollowUp))

\* C30 witness: with no secret, a request to /login carrying a stale cookie
\* was redirected to the root path, where the application page is served.
C30_Witness ==
  /\ ~GatingEnabled /\ request.path = "/login" /\ request.cookie.present
  /\ RedirectedTo("/")
  /\ dispatch(FollowUp) = HTMLResponse("APP_HTML")

(***************************************************************************)
(* Logout and the server: the requests that present an issued cookie.      *)
(***************************************************************************)
\* Requests without a Bearer header that present a cookie to a protected path
TokenProbes ==
  { [path |-> p, method |-> "GET", authorization |-> NoHeader, cookie |-> ck,
     body |-> EmptyBody] : p \in {"/", "/v1/models"}, ck \in Cookies \ {Absent} }

\* The request is accepted: served the application page at the root path,
\* forwarded elsewhere
Accepted(r, resp) ==
  IF r.path = "/"
    THEN resp.kind = "response" /\ resp.status = 200
           /\ resp.body = <<<<"html", "APP_HTML">>>>
    ELSE resp.kind = "call_next"

\* C31: a POST /auth/logout has no effect on the server: a request that
\* presents a previously issued fw_auth value to a protected path is decided
\* after the logout exactly as before it, and is accepted (forwarded, or
\* served the application page at the root path); the logout changes neither
\* the secret, the Derived Token nor the values issued.
C31_LogoutLeavesServer ==
  [][(request'.path = "/auth/logout" /\ request'.method = "POST")
       => /\ API_KEY' = API_KEY /\ COOKIE_VALUE' = COOKIE_VALUE
          /\ issued' = issued
          /\ \A r \in TokenProbes :
               (r.cookie.value \in issued)
                 => /\ dispatch(r)' = dispatch(r)
                    /\ Accepted(r, dispatch(r)')]_vars

\* C31 witness: a browser has logged out with the issued Derived Token, and
\* a request presenting that token to a protected API path is still
\* forwarded.
C31_Witness ==
  /\ GatingEnabled /\ LogoutPost /\ Answered(200)
  /\ request.cookie = Cookie(DerivedToken) /\ DerivedToken \in issued
  /\ \E c \in Clients : jar[c] = Absent
  /\ \E r \in TokenProbes :
       /\ r.path = "/v1/models" /\ r.cookie = request.cookie
       /\ dispatch(r) = call_next

(***************************************************************************)
(* Validate without a secret, and what the responses tell about the        *)
(* secret.                                                                 *)
(***************************************************************************)
\* C32: when no secret is set, no POST /auth/validate, whatever its body, is
\* answered {"valid": true} or attaches an fw_auth cookie, and every fw_auth
\* value a validate issues is non-empty.
C32_NoValidateWithoutSecret ==
  /\ (Handled /\ ~GatingEnabled /\ ValidatePost)
       => /\ response.body # ValidTrue
          /\ response.set_cookie = {}
  /\ \A v \in issued : v # ""

\* Requests of a caller, with every cookie and validate key of the model
SecretProbes ==
  { [path |-> p, method |-> "GET", authorization |-> a, cookie |-> ck,
     body |-> EmptyBody] :
       p \in {"/", "/v1/models", "/login", "/health"},
       a \in {NoHeader, Header(BearerPrefix \o <<"t", "k">>)},
       ck \in Cookies }
  \cup
  { [path |-> "/auth/validate", method |-> "POST", authorization |-> NoHeader,
     cookie |-> Absent, body |-> b] :
       b \in { Object("utf-8", <<<<"key", PyStr(k)>>>>) : k \in Keys }
             \cup { Object("utf-8", <<>>),
                    Object("utf-8", <<<<"key", None>>>>),
                    Body("utf-8", "garbage", None, <<>>),
                    Body("utf-8", "value", [t |-> "list", s |-> ""], <<>>) } }
  \cup
  { [path |-> "/auth/logout", method |-> "POST", authorization |-> NoHeader,
     cookie |-> ck, body |-> EmptyBody] : ck \in Cookies }

\* The caller of r knows neither secret: its validate key is neither of
\* them and its cookie is neither Derived Token
KnowsNeither(r, k1, k2) ==
  /\ KeyField(r.body) \notin {PyStr(k1), PyStr(k2)}
  /\ ~(r.cookie.present
         /\ r.cookie.value \in {DeriveCookieValue(k1), DeriveCookieValue(k2)})

\* C33: for any two non-empty secrets (the one before and the one after a
\* restart) and any request whose validate key equals neither secret and
\* whose fw_auth cookie equals neither Derived Token, the outcome of the
\* Gate (status, body, cookies set, forward or not) is the same under both.
C33_OutcomeIndependentOfSecret ==
  [][(API_KEY # "" /\ API_KEY' # "" /\ API_KEY' # API_KEY)
       => \A r \in SecretProbes :
            KnowsNeither(r, API_KEY, API_KEY')
              => dispatch(r)' = dispatch(r)]_vars

\* C33 witness: after a restart with another non-empty secret, a request
\* with an empty cookie, which was redirected under the previous secret too,
\* is redirected to the login path.
C33_Witness ==
  /\ GatingEnabled /\ request.path = "/v1/models" /\ ~HasBearer
  /\ request.cookie = Cookie("")
  /\ \E v \in issued : v # "" /\ v # DerivedToken
  /\ RedirectedTo("/login")

====
